---------------------------- MODULE Spec2Model ----------------------------
(***************************************************************************)
(* AURA (dyuyeda01/AURA): the update run of scripts/aura_update.py with    *)
(* the composite scorer (scripts/scoring.py), the Exploit-DB lookup cache, *)
(* the NVD lookup cache (scripts/nvd.py), the KEV catalog fetch            *)
(* (scripts/kev.py) and the three output documents.                        *)
(*                                                                         *)
(* Number representation.  Python floats are modelled as exact decimals    *)
(* held in integers:                                                       *)
(*   cvss         tenths       (98   is 9.8)                               *)
(*   epss, trend, ai_context   thousandths (500 is 0.5)                    *)
(*   ctx_mult     hundredths   (130  is 1.3)                               *)
(*   aura_score   tenths       (592  is 59.2)                              *)
(* JSON values are tagged records (JNull, JBool, JNum, JStr, JList); a     *)
(* string is the sequence of its characters.                               *)
(***************************************************************************)
EXTENDS Integers, Sequences, FiniteSets, TLC

VARIABLES
    \* ---- the update run (aura_update.main) ----
    pc,             \* position of main(): "idle", "loop", "save", "write_scores", ...
    today,          \* dt.date.today() as a day number
    stamp,          \* number of runs started: the run's last_run timestamp
    cves,           \* the identifiers fetch_top_kev_cves returned to this run
    kevFailed,      \* the KEV feed request of this run raised
    idx,            \* number of identifiers the loop has finished
    records,        \* main's list `records`
    exploit_cache,  \* main's dict `exploit_cache`
    updated_cache,  \* main's flag `updated_cache`
    pocCalls,       \* has_exploit_poc calls of this run, per identifier
    nvdCalls,       \* NVD HTTP requests of this run, per identifier
    cacheWrites,    \* writes of CACHE_FILE in this run
    iter,           \* the latest loop iteration: its identifier, the outcomes of its
                    \* external calls and what it did (None before the first)
    processed,      \* identifiers handed to the runs so far
    \* ---- the file system ----
    cacheFile,      \* data/cache/exploitdb.json
    tmpFile,        \* data/cache/exploitdb.json.tmp
    nvdFiles,       \* data/cache/<cve>.json, each with its mtime
    scoresFile,     \* public/data/aura_scores.json
    masterFile,     \* public/data/aura_master.json
    historyDir,     \* public/data/history/<date>.json
    pre,            \* the output and cache files as they were when the run started;
                    \* pre.fetched: for each entry of that cache file, the latest day
                    \* on which it can have been fetched
    \* ---- single calls of the pure functions ----
    scoreArgs,      \* arguments of a compute_aura_score call
    scoreRet,       \* its return value ("none" before the call)
    rawCache,       \* content of CACHE_FILE given to load_exploit_cache
    loadRet,        \* its outcome ("none" before the call)
    ctxArgs,        \* a context profile and the signals of one record
    ctxRet,         \* ctx_data, ctx_mult and aura_score main computes from them
    nvdArgs,        \* cache file, time and HTTP outcome of a get_cvss_vendor_product call
    nvdRet,         \* what it returned or raised and the cache file it left
                    \* ("none" before the call)
    \* ---- scripts/prune_history.py ----
    dataHistory,    \* the names in <repository>/data/history
    pruneCall       \* the latest prune(days) call: its days, the listing it found
                    \* and its outcome ("none" before the first)

runVars  == <<pc, today, stamp, cves, kevFailed, idx, records, exploit_cache,
              updated_cache, pocCalls, nvdCalls, cacheWrites, iter, processed>>
fileVars == <<cacheFile, tmpFile, nvdFiles, scoresFile, masterFile, historyDir, pre>>
auxVars  == <<ctxArgs, ctxRet, nvdArgs, nvdRet, dataHistory, pruneCall>>
funVars  == <<scoreArgs, scoreRet, rawCache, loadRet, auxVars>>
vars     == <<runVars, fileVars, funVars>>

-----------------------------------------------------------------------------
(* Bounds of the model *)

MaxRuns == 2
MaxDay == 7
MaxCves == 2
MaxProcessed == 2

-----------------------------------------------------------------------------
(* JSON values *)

JNull     == [k |-> "null"]
JBool(b)  == [k |-> "bool", b |-> b]
JNum(n)   == [k |-> "num", n |-> n]
JStr(s)   == [k |-> "str", s |-> s]
JList(xs) == [k |-> "list", items |-> xs]

IsList(v) == v.k = "list"
IsStr(v)  == v.k = "str"

\* Python truth value of a JSON value (bool(x), `x or []`, `if x`)
Truthy(v) ==
    CASE v.k = "null" -> FALSE
      [] v.k = "bool" -> v.b
      [] v.k = "num"  -> v.n # 0
      [] v.k = "str"  -> Len(v.s) > 0
      [] v.k = "list" -> Len(v.items) > 0

Min(a, b) == IF a < b THEN a ELSE b
Max(a, b) == IF a > b THEN a ELSE b

-----------------------------------------------------------------------------
(* scripts/scoring.py *)

W_cvss    == 40
W_epss    == 20
W_kev     == 20
W_exploit == 10
W_trend   == 5
W_ai      == 5

\* (mutant) a normalization without the lower clamp
Clamp01_NoLower(x) == Min(x, 1000)

\* min(max(x, 0), 1) on thousandths
Clamp01(x) == Min(Max(x, 0), 1000)

\* round(x, 1) of the float x whose exact decimal value is n / d tenths (n >= 0,
\* d > 0): the nearest tenth.  When n / d lies exactly halfway between two tenths
\* the binary float lies an ulp to either side of it and round() returns either
\* neighbour, so the operator yields the set of values the call can return.
RoundTenth(n, d) ==
    LET q == n \div d
        r == n % d
    IN  IF 2 * r < d THEN {q}
        ELSE IF 2 * r > d THEN {q + 1}
        ELSE {q, q + 1}

\* the weighted sum of the normalized signals, in units of 1e-5
WeightedSum(cvss, epss, kev, trend_score, exploit_poc, ai_context) ==
    LET cvss_n    == Clamp01(cvss * 10)
        epss_n    == Clamp01(epss)
        kev_n     == IF kev THEN 1000 ELSE 0
        exploit_n == IF exploit_poc THEN 1000 ELSE 0
        trend_n   == Clamp01(trend_score)
        ai_n      == Clamp01(ai_context)
    IN  cvss_n * W_cvss + epss_n * W_epss + kev_n * W_kev
          + exploit_n * W_exploit + trend_n * W_trend + ai_n * W_ai

\* score *= ctx_mult; return round(score * 100, 1)
\* (the set of values the call can return, in tenths: see RoundTenth)
compute_aura_score(cvss, epss, kev, ctx_mult, trend_score, exploit_poc, ai_context) ==
    RoundTenth(
        WeightedSum(cvss, epss, kev, trend_score, exploit_poc, ai_context) * ctx_mult,
        10000)

-----------------------------------------------------------------------------
(* The Exploit-DB cache document: load_exploit_cache *)

\* a file: missing, holding the complete JSON text of doc, or holding a strict
\* prefix of that text (a write that failed or was interrupted after open(.., "w"))
Missing      == [k |-> "missing"]
Whole(doc)   == [k |-> "whole", doc |-> doc]
Partial(doc) == [k |-> "partial", doc |-> doc]

\* a JSON object: map is a function from its keys to JSON values
JObj(map) == [k |-> "obj", map |-> map]
EmptyDict == [x \in {} |-> JNull]

Digits == {"0", "1", "2", "3", "4", "5", "6", "7", "8", "9"}
ExploitsLiteral == <<"/", "e", "x", "p", "l", "o", "i", "t", "s", "/">>

\* the pattern /exploits/(\d+) matches the characters of u starting at i
MatchAt(u, i) ==
    /\ i + Len(ExploitsLiteral) <= Len(u)
    /\ SubSeq(u, i, i + Len(ExploitsLiteral) - 1) = ExploitsLiteral
    /\ u[i + Len(ExploitsLiteral)] \in Digits

\* (\d+) is greedy: the longest run of digits of u from position j
RECURSIVE DigitRun(_, _)
DigitRun(u, j) ==
    IF j <= Len(u) /\ u[j] \in Digits THEN <<u[j]>> \o DigitRun(u, j + 1) ELSE <<>>

\* re.search(r"/exploits/(\d+)", u): no match (an empty sequence), or <<group(1)>>
\* of the leftmost match
ReSearch(u) ==
    LET hits == {i \in 1..Len(u) : MatchAt(u, i)}
    IN  IF hits = {} THEN <<>>
        ELSE LET i == CHOOSE h \in hits : \A g \in hits : h <= g
             IN  <<DigitRun(u, i + Len(ExploitsLiteral))>>

\* for u in urls: m = re.search(..., u); if m: edb_ids.append(m.group(1))
\* (urls: a sequence of JSON strings)
RECURSIVE ExtractIds(_)
ExtractIds(urls) ==
    IF urls = <<>> THEN <<>>
    ELSE LET m == ReSearch(Head(urls).s)
         IN  (IF m = <<>> THEN <<>> ELSE <<JStr(m[1])>>) \o ExtractIds(Tail(urls))

DefaultEntry == JList(<<JBool(FALSE), JList(<<>>), JList(<<>>)>>)

Ok(value)  == [k |-> "ok", value |-> value]
Raise(exc) == [k |-> "raise", exc |-> exc]
None       == [k |-> "none"]

\* re.search raises TypeError on an element that is not a string
UrlsRaise(urls) == IsList(urls) /\ \E i \in 1..Len(urls.items) : ~IsStr(urls.items[i])

\* (mutant) the loader without the legacy branch: a 2-field entry is defaulted
NormalizeEntry_NoUpgrade(v) ==
    IF IsList(v) /\ Len(v.items) = 3 THEN v ELSE DefaultEntry

\* one iteration of the normalizing loop of load_exploit_cache: the value stored
\* under the key, or the exception raised
NormalizeEntry(v) ==
    IF IsList(v) THEN
        IF Len(v.items) = 3 THEN v
        ELSE IF Len(v.items) = 2 THEN
            LET found == v.items[1]
                urls  == v.items[2]
            IN  IF UrlsRaise(urls) THEN Raise("TypeError")
                ELSE JList(<<found,
                             JList(IF IsList(urls) THEN ExtractIds(urls.items) ELSE <<>>),
                             urls>>)
        ELSE DefaultEntry
    ELSE DefaultEntry

\* the entries of a cache file as they stand in it (none when it holds no object)
RawOfFile(file) == IF file.k = "whole" /\ file.doc.k = "obj" THEN file.doc.map ELSE EmptyDict

\* load_exploit_cache() on the content of CACHE_FILE
load_exploit_cache(file) ==
    IF file.k = "missing" THEN Ok(EmptyDict)
    ELSE IF file.k = "partial" THEN Ok(EmptyDict)          \* json.load raises: return {}
    ELSE IF file.doc.k # "obj" THEN Ok(EmptyDict)           \* raw is not a dict
    ELSE LET raw == file.doc.map
         IN  IF \E key \in DOMAIN raw : NormalizeEntry(raw[key]).k = "raise"
             THEN Raise("TypeError")
             ELSE Ok([key \in DOMAIN raw |-> NormalizeEntry(raw[key])])

-----------------------------------------------------------------------------
(* Inputs *)

\* catalog identifiers; IdRank is their lexicographic (string) order
CveIds == {"CVE-2024-0001", "CVE-2024-0002"}
IdRank(c) ==
    CASE c = "CVE-2024-0001" -> 1
      [] c = "CVE-2024-0002" -> 2

\* evidence urls, as character sequences
UrlOne       == JStr(<<"x">> \o ExploitsLiteral \o <<"1", "1">>)            \* x/exploits/11
UrlTwoHits   == JStr(ExploitsLiteral \o <<"7", "y">> \o ExploitsLiteral \o <<"9">>)
UrlNoLiteral == JStr(<<"x", "/", "9">>)
UrlNoDigits  == JStr(ExploitsLiteral)
UrlLateHit   == JStr(ExploitsLiteral \o <<"x">> \o ExploitsLiteral \o <<"4", "2">>)

Id(digits) == JStr(digits)

\* cache entries as they can stand in CACHE_FILE
CurrentEntries ==
    { JList(<<JBool(TRUE), JList(<<Id(<<"1", "1">>)>>), JList(<<UrlOne>>)>>),
      JList(<<JBool(TRUE), JList(<<Id(<<"9", "9">>)>>), JList(<<UrlOne>>)>>),
      JList(<<JBool(FALSE), JList(<<>>), JList(<<>>)>>),
      JList(<<JNum(1), JNull, UrlOne>>) }
LegacyEntries ==
    { JList(<<JBool(TRUE), JList(<<UrlOne>>)>>),
      JList(<<JBool(TRUE), JList(<<UrlLateHit, UrlNoLiteral, UrlTwoHits>>)>>),
      JList(<<JBool(TRUE), JList(<<UrlNoDigits>>)>>),
      JList(<<JBool(FALSE), JList(<<>>)>>) }
MalformedEntries ==
    { JList(<<JBool(TRUE), UrlOne>>),                       \* urls is a string
      JList(<<JBool(TRUE), JList(<<JNum(5)>>)>>),           \* a url that is a number
      JList(<<JBool(TRUE), JList(<<UrlOne, JNull>>)>>),     \* a url that is null
      JList(<<JBool(TRUE)>>),
      JList(<<JBool(TRUE), JList(<<>>), JList(<<>>), JNum(0)>>),
      JStr(<<"x">>) }
EntryInputs == CurrentEntries \cup LegacyEntries \cup MalformedEntries

\* every JSON object whose keys are identifiers
ObjectsOver(entries) ==
    { JObj(m) : m \in UNION { [ks -> entries] : ks \in SUBSET CveIds } }

CacheFileInputs ==
    {Missing, Whole(JList(<<>>)), Partial(JObj(EmptyDict))}
      \cup { Whole(d) : d \in ObjectsOver(EntryInputs) }

CvssInputs  == {-10, 0, 55, 98, 100, 120}
EpssInputs  == {-100, 0, 500, 1000}
CtxInputs   == {80, 100, 115, 130}
TrendInputs == {0, 400, 1000}
AiInputs    == {0, 500, 1000}

ScoreInputs ==
    [cvss : CvssInputs, epss : EpssInputs, kev : BOOLEAN, ctx_mult : CtxInputs,
     trend_score : TrendInputs, exploit_poc : BOOLEAN, ai_context : AiInputs]

-----------------------------------------------------------------------------
(* scripts/kev.py, scripts/nvd.py, scripts/epss.py and the other collectors *)

MAX_CVES == 12
CACHE_TTL_DAYS == 7

Take(xs, n) == SubSeq(xs, 1, Min(Len(xs), n))

\* fetch_top_kev_cves(limit) on the outcome of the feed request: Raise(..) when
\* requests.get / raise_for_status / r.json() raised, else Ok(the recent
\* identifiers of the feed, newest first)
fetch_top_kev_cves(feed, limit) ==
    IF feed.k = "raise" THEN Ok(<<>>)        \* except Exception: log.error; return []
    ELSE Ok(Take(feed.value, limit))

\* (mutant) a cache file never expires
cache_is_valid_NoTtl(file, now) == file.k # "missing"

\* cache_is_valid(path): the file exists and is younger than the TTL
cache_is_valid(file, now) ==
    file.k # "missing" /\ now - file.mtime < CACHE_TTL_DAYS

\* NVD documents, as returned by the API or read from the cache file: an object
\* whose "vulnerabilities" list holds the items given (each with the base score
\* and the vendor of its first CPE match), or a JSON list of such objects
NvdObj(vulns)        == [k |-> "obj", vulns |-> vulns]
NvdList(items)       == [k |-> "list", items |-> items]
NvdVuln(cvss, vendor) == [cvss |-> cvss, vendor |-> vendor]

NvdDefault == [cvss |-> 0, vendor |-> "Unknown"]        \* 0.0, "Unknown", "Unknown"

\* get_cvss_vendor_product from "Unwrap lists" on: the (score, vendor) returned
\* for the document, or the exception raised (product is derived exactly as
\* vendor is and is left out)
ParseNvd(data) ==
    IF data.k = "list" /\ data.items = <<>> THEN Raise("IndexError")   \* data[0]
    ELSE LET obj == IF data.k = "list" THEN data.items[1] ELSE data
         IN  IF obj.k # "obj" THEN Ok(NvdDefault)        \* dget of a non-dict: no vulns
             ELSE IF obj.vulns = <<>> THEN Ok(NvdDefault)
             ELSE Ok([cvss |-> obj.vulns[1].cvss, vendor |-> obj.vulns[1].vendor])

\* an NVD cache file with its mtime (a day number)
NvdWhole(doc, mtime)   == [k |-> "whole", doc |-> doc, mtime |-> mtime]
NvdPartial(doc, mtime) == [k |-> "partial", doc |-> doc, mtime |-> mtime]

\* get_cvss_vendor_product(cve_id) on the cache file of the identifier, the time
\* and the outcome http of the request it makes when it makes one:
\*   Raise(..) | [k |-> "forbidden"] | Ok(document) | [k |-> "ok", value, write_fails]
\* ret: Ok(score, vendor) or Raise(..); file: the cache file afterwards;
\* fetched: the request was made; served: the cached document was used
get_cvss_vendor_product(file, now, http) ==
    LET cached == cache_is_valid(file, now) /\ file.k = "whole"
    IN  IF cached
        THEN [ret |-> ParseNvd(file.doc), file |-> file, fetched |-> FALSE, served |-> TRUE]
        ELSE IF http.k # "ok"                       \* 403, or the request raised
        THEN [ret |-> Ok(NvdDefault), file |-> file, fetched |-> TRUE, served |-> FALSE]
        ELSE IF http.write_fails                    \* open(cache_file, "w") / json.dump raised
        THEN [ret |-> Ok(NvdDefault), file |-> NvdPartial(http.value, now),
              fetched |-> TRUE, served |-> FALSE]
        ELSE [ret |-> ParseNvd(http.value), file |-> NvdWhole(http.value, now),
              fetched |-> TRUE, served |-> FALSE]

\* the request as the loop pass saw it: None when none was made, one failure
\* for a 403 and an exception alike
HttpSeen(nvd, http) ==
    IF ~nvd.fetched THEN None ELSE IF http.k = "ok" THEN http ELSE Raise("request")

HttpOk(doc, write_fails) == [k |-> "ok", value |-> doc, write_fails |-> write_fails]
Forbidden == [k |-> "forbidden"]

-----------------------------------------------------------------------------
(* aura_update.py: the loop body of main *)

TOP_N == 10

\* a lookup result: the three values main binds to exploit_found,
\* exploit_edb_ids, exploit_urls
Poc(found, ids, urls) == [found |-> found, ids |-> ids, urls |-> urls]

\* (mutant) a hit that binds the defaults instead of the stored values
ReadCached_Defaults(cached) == Ok(Poc(JBool(FALSE), JList(<<>>), JList(<<>>)))

\* main, `if cve in exploit_cache:` branch: the values taken from the entry
ReadCached(cached) ==
    IF IsList(cached) /\ Len(cached.items) = 3
    THEN Ok(Poc(cached.items[1], cached.items[2], cached.items[3]))
    ELSE IF IsList(cached) /\ Len(cached.items) = 2
    THEN LET urls == cached.items[2]
         IN  IF UrlsRaise(urls) \/ urls.k \in {"null", "bool", "num"}
             THEN Raise("TypeError")            \* re.search / iteration of a non-iterable
             ELSE Ok(Poc(cached.items[1],
                         JList(IF IsList(urls) THEN ExtractIds(urls.items) ELSE <<>>),
                         urls))
    ELSE Ok(Poc(JBool(FALSE), JList(<<>>), JList(<<>>)))

\* exploit_cache[cve] = [bool(exploit_found), exploit_edb_ids or [], exploit_urls or []]
StoreEntry(res) ==
    JList(<<JBool(Truthy(res.found)),
            IF Truthy(res.ids) THEN res.ids ELSE JList(<<>>),
            IF Truthy(res.urls) THEN res.urls ELSE JList(<<>>)>>)

\* ctx_mult = ctx_data["fit_score"] if ... "fit_score" in ctx_data else 1.0:
\* compute_context_fit returns the six category keys only
main_ctx_mult == 100

\* the dict appended to `records` (the fields the rest of the run reads)
MakeRecord(cve, aura_score, nvd, epss, poc, trend_score, ai_context) ==
    [cve |-> cve, aura_score |-> aura_score, cvss |-> nvd.cvss, epss |-> epss,
     kev |-> TRUE, trend_score |-> trend_score, exploit_poc |-> poc.found,
     exploit_edb_ids |-> poc.ids, exploit_urls |-> poc.urls,
     ai_context |-> ai_context, vendor |-> nvd.vendor]

\* (mutant) a pass that takes its cache entry back when a later step raises
LoopBody_DiscardsOnRaise(cve, cache, nvdFile, now, http, epss, pocOut, trendOut) ==
    LET nvd    == get_cvss_vendor_product(nvdFile, now, http)
        hit    == cve \in DOMAIN cache
        poc    == IF hit THEN ReadCached(cache[cve]) ELSE pocOut
        stored == nvd.ret.k = "ok" /\ ~hit /\ poc.k = "ok" /\ trendOut.k = "ok"
    IN  [nvd     |-> nvd,
         lookup  |-> IF nvd.ret.k # "ok" THEN "none" ELSE IF hit THEN "hit" ELSE "miss",
         poc     |-> IF nvd.ret.k # "ok" THEN None ELSE poc,
         cache   |-> IF stored
                     THEN [c \in DOMAIN cache \cup {cve} |->
                             IF c = cve THEN StoreEntry(poc.value) ELSE cache[c]]
                     ELSE cache,
         updated |-> stored,
         raised  |-> nvd.ret.k # "ok" \/ poc.k # "ok" \/ trendOut.k # "ok"]

\* one pass of `for cve in cves:` up to the score, given the outcomes of the
\* external calls it makes.  lookup: "none" (not reached), "hit" or "miss";
\* poc: what the lookup bound (Ok) or the exception; raised: the pass ended in
\* `except Exception`
LoopBody(cve, cache, nvdFile, now, http, epss, pocOut, trendOut) ==
    LET nvd    == get_cvss_vendor_product(nvdFile, now, http)
        hit    == cve \in DOMAIN cache
        poc    == IF hit THEN ReadCached(cache[cve]) ELSE pocOut
        stored == nvd.ret.k = "ok" /\ ~hit /\ poc.k = "ok"
    IN  [nvd     |-> nvd,
         lookup  |-> IF nvd.ret.k # "ok" THEN "none" ELSE IF hit THEN "hit" ELSE "miss",
         poc     |-> IF nvd.ret.k # "ok" THEN None ELSE poc,
         cache   |-> IF stored
                     THEN [c \in DOMAIN cache \cup {cve} |->
                             IF c = cve THEN StoreEntry(poc.value) ELSE cache[c]]
                     ELSE cache,
         updated |-> stored,
         raised  |-> nvd.ret.k # "ok" \/ poc.k # "ok" \/ trendOut.k # "ok"]

\* (mutant) a sort that puts a record before the records of equal score
InsertByScore_TiesReversed(xs, r) ==
    LET n == Cardinality({i \in 1..Len(xs) : xs[i].aura_score > r.aura_score})
    IN  SubSeq(xs, 1, n) \o <<r>> \o SubSeq(xs, n + 1, Len(xs))

\* records.sort(key=lambda x: x.get("aura_score", 0), reverse=True): a stable
\* sort, equal scores keep the order they have in the list
InsertByScore(xs, r) ==
    LET n == Cardinality({i \in 1..Len(xs) : xs[i].aura_score >= r.aura_score})
    IN  SubSeq(xs, 1, n) \o <<r>> \o SubSeq(xs, n + 1, Len(xs))

RECURSIVE SortPrefix(_, _)
SortPrefix(rs, n) == IF n = 0 THEN <<>> ELSE InsertByScore(SortPrefix(rs, n - 1), rs[n])

SortRecords(rs) == SortPrefix(rs, Len(rs))

-----------------------------------------------------------------------------
(* Initial state *)

NoCalls == [c \in CveIds |-> 0]

InitRun ==
    /\ pc = "idle"
    /\ today = 0
    /\ stamp = 0
    /\ cves = <<>>
    /\ kevFailed = FALSE
    /\ idx = 0
    /\ records = <<>>
    /\ exploit_cache = EmptyDict
    /\ updated_cache = FALSE
    /\ pocCalls = NoCalls
    /\ nvdCalls = NoCalls
    /\ cacheWrites = 0
    /\ iter = None
    /\ processed = 0

InitFiles ==
    /\ tmpFile = Missing
    /\ nvdFiles = [c \in CveIds |-> Missing]
    /\ scoresFile = Missing
    /\ masterFile = Missing
    /\ historyDir = [d \in {} |-> Missing]
    /\ pre = [scores |-> Missing, master |-> Missing, history |-> [d \in {} |-> Missing],
              cache |-> Missing, fetched |-> [c \in {} |-> 0]]

InitAux ==
    /\ ctxArgs = None
    /\ ctxRet = None
    /\ nvdArgs = None
    /\ nvdRet = None
    /\ dataHistory = [exists |-> FALSE, names |-> {}]
    /\ pruneCall = None

InitFun ==
    /\ scoreArgs = None
    /\ scoreRet = None
    /\ rawCache = Missing
    /\ loadRet = None
    /\ InitAux

-----------------------------------------------------------------------------
(* Outcomes of the external calls of a run *)

\* every list of at most n identifiers
RECURSIVE SeqsUpTo(_, _)
SeqsUpTo(S, n) ==
    IF n = 0 THEN {<<>>}
    ELSE SeqsUpTo(S, n - 1)
           \cup {Append(xs, x) : xs \in {ys \in SeqsUpTo(S, n - 1) : Len(ys) = n - 1}, x \in S}

KevFeeds == {Raise("ConnectionError")} \cup {Ok(c) : c \in SeqsUpTo(CveIds, MaxCves)}

HttpOutcomes ==
    { Raise("Timeout"), Forbidden,
      HttpOk(NvdObj(<<NvdVuln(98, "acme")>>), FALSE),
      HttpOk(NvdObj(<<NvdVuln(98, "acme")>>), TRUE),
      HttpOk(NvdList(<<>>), FALSE) }

EpssResults == {0, 500}         \* 0.0 is also what get_epss_score returns on failure

\* has_exploit_poc(cve): (found, edb ids, urls), or an exception
PocOutcomes ==
    { Ok(Poc(JBool(TRUE), JList(<<Id(<<"1", "1">>)>>), JList(<<UrlOne>>))),
      Ok(Poc(JBool(FALSE), JList(<<>>), JList(<<>>))),
      Raise("HTTPError") }

\* get_trend_score(cve): the score, or the TypeError of min(None, NEWS_CAP) when
\* the API answers "totalResults": null
TrendOutcomes == {Ok(0), Raise("TypeError")}

AiResults == {0}

\* CACHE_FILE before the first run
InitialCacheFiles ==
    { Missing,
      Whole(JObj([c \in {"CVE-2024-0001"} |-> JList(<<JBool(TRUE), JList(<<UrlOne>>)>>)])),
      Whole(JObj([c \in {"CVE-2024-0002"} |-> JList(<<JBool(TRUE), JList(<<JNum(5)>>)>>)])) }

DayAdvances == {0, 1, CACHE_TTL_DAYS}

-----------------------------------------------------------------------------
(* aura_update.main, step by step *)

Ended == {"idle", "done", "failed", "aborted", "crashed"}

\* main() up to `for cve in cves:`: load_context, load_exploit_cache (an
\* exception of which ends the process), fetch_top_kev_cves in try/except
\* (the run starts d days after the previous one; day 0 is the day of the first)
StartRun ==
    /\ pc \in Ended
    /\ stamp < MaxRuns
    /\ stamp' = stamp + 1
    /\ \E d \in DayAdvances :
          /\ stamp = 0 => d = 0
          /\ today + d <= MaxDay
          /\ today' = today + d
    /\ pre' = [scores |-> scoresFile, master |-> masterFile, history |-> historyDir,
               cache |-> cacheFile,
               fetched |-> [c \in DOMAIN RawOfFile(cacheFile) |->
                              IF c \in DOMAIN pre.fetched THEN pre.fetched[c] ELSE today]]
    /\ idx' = 0 /\ records' = <<>> /\ updated_cache' = FALSE /\ iter' = None
    /\ pocCalls' = NoCalls /\ nvdCalls' = NoCalls /\ cacheWrites' = 0
    /\ LET loaded == load_exploit_cache(cacheFile)
       IN  IF loaded.k = "raise"
           THEN /\ pc' = "crashed"
                /\ exploit_cache' = EmptyDict /\ cves' = <<>> /\ kevFailed' = FALSE
                /\ processed' = processed
           ELSE \E feed \in KevFeeds :
                  LET got == fetch_top_kev_cves(feed, MAX_CVES)
                  IN  /\ exploit_cache' = loaded.value
                      /\ kevFailed' = (feed.k = "raise")
                      /\ IF got.k = "raise"
                         THEN pc' = "aborted" /\ cves' = <<>>     \* except Exception: return
                         ELSE pc' = "loop" /\ cves' = got.value
                      /\ processed + Len(cves') <= MaxProcessed
                      /\ processed' = processed + Len(cves')
    /\ UNCHANGED <<cacheFile, tmpFile, nvdFiles, scoresFile, masterFile,
                   historyDir, funVars>>

\* one pass of the loop over cves
ProcessCve ==
    /\ pc = "loop"
    /\ idx < Len(cves)
    /\ LET cve == cves[idx + 1]
       IN  \E http \in HttpOutcomes, epss \in EpssResults, pocOut \in PocOutcomes,
              trendOut \in TrendOutcomes, ai \in AiResults :
             LET b == LoopBody(cve, exploit_cache, nvdFiles[cve], today, http, epss,
                               pocOut, trendOut)
             IN  /\ nvdFiles' = [nvdFiles EXCEPT ![cve] = b.nvd.file]
                 /\ nvdCalls' = [nvdCalls EXCEPT ![cve] = @ + (IF b.nvd.fetched THEN 1 ELSE 0)]
                 /\ pocCalls' = [pocCalls EXCEPT ![cve] = @ + (IF b.lookup = "miss" THEN 1 ELSE 0)]
                 /\ exploit_cache' = b.cache
                 /\ updated_cache' = (updated_cache \/ b.updated)
                 /\ IF b.raised
                    THEN /\ records' = records
                         /\ iter' = [cve |-> cve, lookup |-> b.lookup, poc |-> b.poc,
                                     served |-> b.nvd.served, fetched |-> b.nvd.fetched,
                                     nvdBefore |-> nvdFiles[cve], http |-> HttpSeen(b.nvd, http),
                                     emitted |-> FALSE]
                    ELSE \E score \in compute_aura_score(b.nvd.ret.value.cvss, epss, TRUE,
                                                         main_ctx_mult, trendOut.value,
                                                         Truthy(b.poc.value.found), ai) :
                         /\ records' = Append(records,
                                MakeRecord(cve, score, b.nvd.ret.value, epss, b.poc.value,
                                           trendOut.value, ai))
                         /\ iter' = [cve |-> cve, lookup |-> b.lookup, poc |-> b.poc,
                                     served |-> b.nvd.served, fetched |-> b.nvd.fetched,
                                     nvdBefore |-> nvdFiles[cve], http |-> HttpSeen(b.nvd, http),
                                     emitted |-> TRUE]
    /\ idx' = idx + 1
    /\ UNCHANGED <<pc, today, stamp, cves, kevFailed, cacheWrites, processed, cacheFile,
                   tmpFile, scoresFile, masterFile, historyDir, pre, funVars>>

\* (mutant) a run that saves the cache whether or not an entry was added
EndLoop_AlwaysSaves ==
    /\ pc = "loop"
    /\ idx = Len(cves)
    /\ pc' = "save_tmp"
    /\ UNCHANGED <<today, stamp, cves, kevFailed, idx, records, exploit_cache,
                   updated_cache, pocCalls, nvdCalls, cacheWrites, iter, processed, fileVars, funVars>>

\* `if updated_cache:` after the loop
EndLoop ==
    /\ pc = "loop"
    /\ idx = Len(cves)
    /\ pc' = IF updated_cache THEN "save_tmp" ELSE "rank"
    /\ UNCHANGED <<today, stamp, cves, kevFailed, idx, records, exploit_cache,
                   updated_cache, pocCalls, nvdCalls, cacheWrites, iter, processed, fileVars, funVars>>

\* the content written by open(path, "w") + json.dump(doc): complete, or the
\* file as it was when open() raised, or a truncated text when the dump raised
WriteOutcomes == {"ok", "dump_fails"}
WriteFile(old, doc, outcome) ==
    CASE outcome = "ok"         -> Whole(doc)
      [] outcome = "open_fails" -> old
      [] outcome = "dump_fails" -> Partial(doc)

\* save_exploit_cache: with open(tmp, "w") as f: json.dump(cache, f, indent=2)
SaveTmp ==
    /\ pc = "save_tmp"
    /\ \E outcome \in WriteOutcomes :
          /\ tmpFile' = WriteFile(tmpFile, JObj(exploit_cache), outcome)
          /\ pc' = IF outcome = "ok" THEN "save_replace" ELSE "save_fallback"
    /\ UNCHANGED <<today, stamp, cves, kevFailed, idx, records, exploit_cache,
                   updated_cache, pocCalls, nvdCalls, cacheWrites, iter, processed, cacheFile,
                   nvdFiles, scoresFile, masterFile, historyDir, pre, funVars>>

\* save_exploit_cache: os.replace(tmp, CACHE_FILE), or its exception
SaveReplace ==
    /\ pc = "save_replace"
    /\ \E ok \in BOOLEAN :
          IF ok
          THEN /\ cacheFile' = tmpFile /\ tmpFile' = Missing
               /\ cacheWrites' = cacheWrites + 1
               /\ pc' = "rank"
          ELSE /\ pc' = "save_fallback"
               /\ UNCHANGED <<cacheFile, tmpFile, cacheWrites>>
    /\ UNCHANGED <<today, stamp, cves, kevFailed, idx, records, exploit_cache,
                   updated_cache, pocCalls, nvdCalls, iter, processed,
                   nvdFiles, scoresFile, masterFile, historyDir, pre, funVars>>

\* save_exploit_cache, except branch: with open(CACHE_FILE, "w") as f:
\* json.dump(cache, f, indent=2); an exception here leaves main
SaveFallback ==
    /\ pc = "save_fallback"
    /\ \E outcome \in WriteOutcomes :
          /\ cacheFile' = WriteFile(cacheFile, JObj(exploit_cache), outcome)
          /\ cacheWrites' = cacheWrites + (IF outcome = "open_fails" THEN 0 ELSE 1)
          /\ pc' = IF outcome = "ok" THEN "rank" ELSE "crashed"
    /\ UNCHANGED <<today, stamp, cves, kevFailed, idx, records, exploit_cache,
                   updated_cache, pocCalls, nvdCalls, iter, processed, tmpFile,
                   nvdFiles, scoresFile, masterFile, historyDir, pre, funVars>>

\* records.sort(...); top_records = records[:10]
Rank ==
    /\ pc = "rank"
    /\ records' = SortRecords(records)
    /\ pc' = "write_scores"
    /\ UNCHANGED <<today, stamp, cves, kevFailed, idx, exploit_cache,
                   updated_cache, pocCalls, nvdCalls, cacheWrites, iter, processed, fileVars, funVars>>

\* (mutant) a public feed that holds every record
ScoresDoc_AllRecords == [k |-> "scores", last_run |-> stamp, cves |-> records]

ScoresDoc  == [k |-> "scores", last_run |-> stamp, cves |-> Take(records, TOP_N)]

\* (mutant) a master document that keeps the records it held before the run
MasterDoc_KeepsOld ==
    [k |-> "master", date |-> today,
     records |-> (IF pre.master.k = "whole" THEN pre.master.doc.records ELSE <<>>) \o records]

MasterDoc  == [k |-> "master", date |-> today, records |-> records]
HistoryDoc == [k |-> "history", records |-> records]

HistoryFile(dir, date) == IF date \in DOMAIN dir THEN dir[date] ELSE Missing

\* (mutant) a snapshot name that differs from run to run of one day
HistoryName_PerRun == (today + 1) * 100 + stamp

\* os.path.join(HISTORY_DIR, f"{today}.json"): the snapshot is named by the date
HistoryName == today

\* with open(OUTPUT_SCORES, "w") as f: json.dump(output_data, f, indent=2)
WriteScores ==
    /\ pc = "write_scores"
    /\ \E outcome \in WriteOutcomes :
          /\ scoresFile' = WriteFile(scoresFile, ScoresDoc, outcome)
          /\ pc' = IF outcome = "ok" THEN "write_master" ELSE "failed"
    /\ UNCHANGED <<today, stamp, cves, kevFailed, idx, records, exploit_cache,
                   updated_cache, pocCalls, nvdCalls, cacheWrites, iter, processed, cacheFile,
                   tmpFile, nvdFiles, masterFile, historyDir, pre, funVars>>

\* with open(OUTPUT_MASTER, "w") as f: json.dump({"date": today, "records": records}, ..)
WriteMaster ==
    /\ pc = "write_master"
    /\ \E outcome \in WriteOutcomes :
          /\ masterFile' = WriteFile(masterFile, MasterDoc, outcome)
          /\ pc' = IF outcome = "ok" THEN "write_history" ELSE "failed"
    /\ UNCHANGED <<today, stamp, cves, kevFailed, idx, records, exploit_cache,
                   updated_cache, pocCalls, nvdCalls, cacheWrites, iter, processed, cacheFile,
                   tmpFile, nvdFiles, scoresFile, historyDir, pre, funVars>>

\* with open(os.path.join(HISTORY_DIR, f"{today}.json"), "w") as f: json.dump(records, ..)
WriteHistory ==
    /\ pc = "write_history"
    /\ \E outcome \in WriteOutcomes :
          /\ LET file == WriteFile(HistoryFile(historyDir, HistoryName), HistoryDoc, outcome)
             IN  historyDir' =
                   IF file = Missing THEN historyDir
                   ELSE [d \in DOMAIN historyDir \cup {HistoryName} |->
                           IF d = HistoryName THEN file ELSE historyDir[d]]
          /\ pc' = IF outcome = "ok" THEN "done" ELSE "failed"
    /\ UNCHANGED <<today, stamp, cves, kevFailed, idx, records, exploit_cache,
                   updated_cache, pocCalls, nvdCalls, cacheWrites, iter, processed, cacheFile,
                   tmpFile, nvdFiles, scoresFile, masterFile, pre, funVars>>

Init == InitRun /\ InitFiles /\ InitFun /\ cacheFile \in InitialCacheFiles

Next ==
    \/ StartRun
    \/ ProcessCve
    \/ EndLoop
    \/ SaveTmp
    \/ SaveReplace
    \/ SaveFallback
    \/ Rank
    \/ WriteScores
    \/ WriteMaster
    \/ WriteHistory

Spec == Init /\ [][Next]_vars

-----------------------------------------------------------------------------
(* Single calls of compute_aura_score *)

ScoreCall ==
    /\ scoreRet = None
    /\ \E r \in compute_aura_score(scoreArgs.cvss, scoreArgs.epss, scoreArgs.kev,
                                     scoreArgs.ctx_mult, scoreArgs.trend_score,
                                     scoreArgs.exploit_poc, scoreArgs.ai_context) :
           scoreRet' = Ok(r)
    /\ UNCHANGED <<runVars, fileVars, scoreArgs, rawCache, loadRet, auxVars>>

InitScore ==
    /\ InitRun /\ InitFiles /\ InitAux /\ cacheFile = Missing
    /\ scoreArgs \in ScoreInputs
    /\ scoreRet = None
    /\ rawCache = Missing
    /\ loadRet = None

SpecScore == InitScore /\ [][ScoreCall]_vars

-----------------------------------------------------------------------------
(* Single calls of load_exploit_cache *)

LoadCall ==
    /\ loadRet = None
    /\ loadRet' = load_exploit_cache(rawCache)
    /\ UNCHANGED <<runVars, fileVars, scoreArgs, scoreRet, rawCache, auxVars>>

InitLoad ==
    /\ InitRun /\ InitFiles /\ InitAux /\ cacheFile = Missing
    /\ scoreArgs = None
    /\ scoreRet = None
    /\ rawCache \in CacheFileInputs
    /\ loadRet = None

SpecLoad == InitLoad /\ [][LoadCall]_vars

-----------------------------------------------------------------------------
(* scripts/context.py: compute_context_fit, and main's use of its result *)

Categories == {"cvss", "epss", "kev", "exploit", "trend", "ai"}

\* str.lower() on the letters the profiles use
LowerChar(c) ==
    CASE c = "F" -> "f" [] c = "G" -> "g" [] c = "H" -> "h" [] c = "L" -> "l"
      [] c = "O" -> "o" [] c = "W" -> "w" [] c = "V" -> "v" [] c = "E" -> "e"
      [] c = "R" -> "r" [] c = "N" -> "n" [] c = "M" -> "m" [] c = "T" -> "t"
      [] OTHER -> c
Lower(str) == [i \in 1..Len(str) |-> LowerChar(str[i])]

\* `sub in str`
Contains(sub, str) ==
    \E i \in 1..(Len(str) - Len(sub) + 1) : SubSeq(str, i, i + Len(sub) - 1) = sub

SensitiveWords ==
    { <<"f", "i", "n", "a", "n", "c", "e">>,
      <<"h", "e", "a", "l", "t", "h">>,
      <<"g", "o", "v", "e", "r", "n", "m", "e", "n", "t">> }

\* ctx.get(key): the value of the key, None (null) when the profile lacks it
CtxGet(ctx, key) == IF key \in DOMAIN ctx THEN ctx[key] ELSE JNull

\* (ctx.get(key) or default).lower(), for a value that is a string or null
LowerOr(v, default) == Lower(IF Truthy(v) THEN v.s ELSE default)

\* max(0.8, min(1.3, x)) on hundredths
ClampMult(x) == Max(80, Min(130, x))

\* (mutant) a context fit that ignores the risk tolerance
compute_context_fit_NoTolerance(ctx) ==
    IF ctx = EmptyDict THEN [c \in Categories |-> 100]
    ELSE LET sector == LowerOr(CtxGet(ctx, "sector"), <<>>)
             internet_exposed == Truthy(CtxGet(ctx, "internet_exposed"))
         IN  [c \in Categories |->
                ClampMult(100
                  + (IF c = "cvss" /\ \E w \in SensitiveWords : Contains(w, sector)
                     THEN 10 ELSE 0)
                  + (IF c = "kev" /\ internet_exposed THEN 10 ELSE 0))]

\* compute_context_fit(cve_id, vendor, product, description, ctx): the profile
\* ctx is a dict (a function from its keys to JSON values; the empty dict also
\* stands for None); the result maps each category to its multiplier, in
\* hundredths.  The sums are exact hundredths after round(.., 2).
compute_context_fit(ctx) ==
    IF ctx = EmptyDict THEN [c \in Categories |-> 100]          \* if not ctx
    ELSE LET sector   == LowerOr(CtxGet(ctx, "sector"), <<>>)
             risk_tol == LowerOr(CtxGet(ctx, "risk_tolerance"), <<"m", "e", "d", "i", "u", "m">>)
             internet_exposed == Truthy(CtxGet(ctx, "internet_exposed"))
             shift    == IF risk_tol = <<"l", "o", "w">> THEN 5
                         ELSE IF risk_tol = <<"h", "i", "g", "h">> THEN -5
                         ELSE 0
         IN  [c \in Categories |->
                ClampMult(100
                  + (IF c = "cvss" /\ \E w \in SensitiveWords : Contains(w, sector)
                     THEN 10 ELSE 0)
                  + (IF c = "kev" /\ internet_exposed THEN 10 ELSE 0)
                  + shift)]

\* ctx_mult = ctx_data["fit_score"] if isinstance(ctx_data, dict) and
\*            "fit_score" in ctx_data else 1.0
CtxMultOf(ctx_data) ==
    IF "fit_score" \in DOMAIN ctx_data THEN ctx_data["fit_score"] ELSE 100

\* context profiles (context.yaml as load_context returns it)
SectorInputs ==
    { JNull, JStr(<<>>),
      JStr(<<"F", "i", "n", "a", "n", "c", "e">>),
      JStr(<<"p", "u", "b", "l", "i", "c", " ", "h", "e", "a", "l", "t", "h">>),
      JStr(<<"G", "O", "V", "E", "R", "N", "M", "E", "N", "T">>),
      JStr(<<"r", "e", "t", "a", "i", "l">>) }
RiskInputs ==
    { JNull, JStr(<<"l", "o", "w">>), JStr(<<"L", "o", "w">>), JStr(<<"h", "i", "g", "h">>),
      JStr(<<"m", "e", "d", "i", "u", "m">>), JStr(<<"l", "o", "w", "e", "r">>) }
ExposedInputs == {JBool(TRUE), JBool(FALSE)}

ProfileKeys == {"sector", "risk_tolerance", "internet_exposed"}

\* every profile over the keys: a key is absent or has one of its values
CtxProfiles ==
    UNION { { ctx \in [ks -> SectorInputs \cup RiskInputs \cup ExposedInputs] :
                /\ "sector" \in ks => ctx["sector"] \in SectorInputs
                /\ "risk_tolerance" \in ks => ctx["risk_tolerance"] \in RiskInputs
                /\ "internet_exposed" \in ks => ctx["internet_exposed"] \in ExposedInputs }
            : ks \in SUBSET ProfileKeys }

CtxInputsOfRun ==
    [ctx : CtxProfiles, cvss : {0, 98}, epss : {0, 500}, exploit_poc : BOOLEAN,
     trend_score : {0, 400}, ai_context : {0}]

\* main, lines "Context + Summaries" to compute_aura_score, for one record
ContextScoreCall ==
    /\ ctxRet = None
    /\ LET ctx_data == compute_context_fit(ctxArgs.ctx)
           ctx_mult == CtxMultOf(ctx_data)
       IN  \E r \in compute_aura_score(ctxArgs.cvss, ctxArgs.epss, TRUE, ctx_mult,
                                        ctxArgs.trend_score, ctxArgs.exploit_poc,
                                        ctxArgs.ai_context) :
              ctxRet' = Ok([ctx_data |-> ctx_data, ctx_mult |-> ctx_mult, aura_score |-> r])
    /\ UNCHANGED <<runVars, fileVars, scoreArgs, scoreRet, rawCache, loadRet,
                   ctxArgs, nvdArgs, nvdRet, dataHistory, pruneCall>>

InitCtx ==
    /\ InitRun /\ InitFiles /\ cacheFile = Missing
    /\ scoreArgs = None /\ scoreRet = None /\ rawCache = Missing /\ loadRet = None
    /\ ctxArgs \in CtxInputsOfRun
    /\ ctxRet = None
    /\ nvdArgs = None /\ nvdRet = None
    /\ dataHistory = [exists |-> FALSE, names |-> {}] /\ pruneCall = None

SpecCtx == InitCtx /\ [][ContextScoreCall]_vars

-----------------------------------------------------------------------------
(* scripts/prune_history.py *)

\* a file name is a sequence of pieces of text:
\*   DateText(d)                the ISO text of day d, as in 2025-01-05
\*   DateFront(d), DateBack(d)  that text cut in two, as in 2025-01 and -05
\*   Ext                        the text .json
\*   Txt                        a text that holds no .json and no date, as in notes
DateText(d)  == [p |-> "date", day |-> d]
DateFront(d) == [p |-> "front", day |-> d]
DateBack(d)  == [p |-> "back", day |-> d]
Ext          == [p |-> "ext", day |-> 0]
Txt          == [p |-> "txt", day |-> 0]

\* fname.endswith(".json")
EndsWithJson(fname) == Len(fname) > 0 /\ fname[Len(fname)] = Ext

\* fname.replace(".json", ""): every occurrence is removed
ReplaceJson(fname) == SelectSeq(fname, LAMBDA x : x # Ext)

\* datetime.datetime.strptime(text, "%Y-%m-%d").date(): the day, or ValueError
Strptime(text) ==
    IF Len(text) = 1 /\ text[1].p = "date" THEN Ok(text[1].day)
    ELSE IF Len(text) = 2 /\ text[1].p = "front" /\ text[2].p = "back"
              /\ text[1].day = text[2].day
    THEN Ok(text[1].day)
    ELSE Raise("ValueError")

\* a directory: it exists or not, and the names in it
Dir(names) == [exists |-> TRUE, names |-> names]
NoDir      == [exists |-> FALSE, names |-> {}]

PRUNE_DAYS == 365

\* prune(days) on the directory HISTORY_DIR of prune_history.py at day `now`:
\* the directory afterwards, or the exception of os.listdir
prune(dir, now, days) ==
    IF ~dir.exists THEN Raise("FileNotFoundError")
    ELSE LET cutoff == now - days
             removed == {fname \in dir.names :
                            /\ EndsWithJson(fname)
                            /\ Strptime(ReplaceJson(fname)).k = "ok"
                            /\ Strptime(ReplaceJson(fname)).value < cutoff}
         IN  Ok(Dir(dir.names \ removed))

\* names found in a history directory
NameInputs ==
    { <<DateText(0), Ext>>, <<DateText(1), Ext>>, <<DateText(-1), Ext>>,
      <<DateText(-1)>>,                                 \* 2025-01-05
      <<Txt, Ext>>,                                     \* notes.json
      <<DateText(-1), Ext, Txt>>,                       \* 2025-01-05.json.bak
      <<DateText(-1), Ext, Ext>>,                       \* 2025-01-05.json.json
      <<DateFront(-1), Ext, DateBack(-1), Ext>> }       \* 2025-01.json-05.json

DirInputs == {NoDir} \cup {Dir(names) : names \in SUBSET NameInputs}

\* days between the run and the prune call, and the retention windows asked for
PruneDelays == {0, PRUNE_DAYS, PRUNE_DAYS + 1}
PruneDays   == {PRUNE_DAYS, 0}

\* a call of prune(days), some days after the run
Prune ==
    /\ pc \in {"done", "failed"}
    /\ pruneCall = None
    /\ \E delay \in PruneDelays, days \in PruneDays :
          LET r == prune(dataHistory, today + delay, days)
          IN  /\ today' = today + delay
              /\ dataHistory' = IF r.k = "ok" THEN r.value ELSE dataHistory
              /\ pruneCall' = [k |-> r.k, days |-> days, before |-> dataHistory]
    /\ UNCHANGED <<pc, stamp, cves, kevFailed, idx, records, exploit_cache, updated_cache,
                   pocCalls, nvdCalls, cacheWrites, iter, processed, fileVars,
                   scoreArgs, scoreRet, rawCache, loadRet, ctxArgs, ctxRet, nvdArgs, nvdRet>>

\* the records of a run whose loop has finished
RecordListInputs ==
    { <<>>,
      <<MakeRecord("CVE-2024-0001", 592, [cvss |-> 98, vendor |-> "acme"], 0,
                   Poc(JBool(FALSE), JList(<<>>), JList(<<>>)), 0, 0)>> }

\* a run on day 0 that is about to rank and write its records, beside a
\* history directory of prune_history.py
InitPrune ==
    /\ pc = "rank" /\ today = 0 /\ stamp = 1
    /\ records \in RecordListInputs
    /\ cves = [i \in 1..Len(records) |-> records[i].cve]
    /\ idx = Len(cves) /\ processed = Len(cves)
    /\ kevFailed = FALSE
    /\ exploit_cache = EmptyDict /\ updated_cache = FALSE
    /\ pocCalls = NoCalls /\ nvdCalls = NoCalls /\ cacheWrites = 0 /\ iter = None
    /\ InitFiles /\ cacheFile = Missing
    /\ scoreArgs = None /\ scoreRet = None /\ rawCache = Missing /\ loadRet = None
    /\ ctxArgs = None /\ ctxRet = None /\ nvdArgs = None /\ nvdRet = None
    /\ dataHistory \in DirInputs
    /\ pruneCall = None

NextPrune ==
    \/ Rank
    \/ WriteScores
    \/ WriteMaster
    \/ WriteHistory
    \/ Prune

SpecPrune == InitPrune /\ [][NextPrune]_vars

-----------------------------------------------------------------------------
(* Single calls of get_cvss_vendor_product *)

\* documents the API can answer with, or a cache file can hold: a CVE with its
\* base score and vendor, a CVE without metrics and CPE data, no vulnerabilities
\* key, an empty list, a list holding an object, a list holding a number
NvdDocInputs ==
    { NvdObj(<<NvdVuln(98, "acme")>>),
      NvdObj(<<NvdVuln(0, "Unknown")>>),
      NvdObj(<<>>),
      NvdList(<<>>),
      NvdList(<<NvdObj(<<NvdVuln(75, "acme")>>)>>),
      NvdList(<<JNum(5)>>) }

NvdNow == CACHE_TTL_DAYS

\* the cache file of the identifier: none, or a document written 0..TTL days ago
NvdFileInputs ==
    {Missing}
      \cup {NvdWhole(doc, mtime) : doc \in NvdDocInputs, mtime \in {0, 1, NvdNow}}
      \cup {NvdPartial(doc, mtime) : doc \in {NvdObj(<<>>)}, mtime \in {1}}

NvdHttpInputs ==
    {Raise("Timeout"), Forbidden}
      \cup {HttpOk(doc, write_fails) : doc \in NvdDocInputs, write_fails \in BOOLEAN}

NvdCall ==
    /\ nvdRet = None
    /\ nvdRet' = [k |-> "called",
                   call |-> get_cvss_vendor_product(nvdArgs.file, nvdArgs.now, nvdArgs.http)]
    /\ UNCHANGED <<runVars, fileVars, scoreArgs, scoreRet, rawCache, loadRet,
                   ctxArgs, ctxRet, nvdArgs, dataHistory, pruneCall>>

InitNvd ==
    /\ InitRun /\ InitFiles /\ cacheFile = Missing
    /\ scoreArgs = None /\ scoreRet = None /\ rawCache = Missing /\ loadRet = None
    /\ ctxArgs = None /\ ctxRet = None
    /\ nvdArgs \in [file : NvdFileInputs, now : {NvdNow}, http : NvdHttpInputs]
    /\ nvdRet = None
    /\ dataHistory = [exists |-> FALSE, names |-> {}] /\ pruneCall = None

SpecNvd == InitNvd /\ [][NvdCall]_vars

-----------------------------------------------------------------------------
(* Ranking and selection of a full catalog *)

CveNames ==
    << "CVE-2024-0001", "CVE-2024-0002", "CVE-2024-0003", "CVE-2024-0004",
       "CVE-2024-0005", "CVE-2024-0006", "CVE-2024-0007", "CVE-2024-0008",
       "CVE-2024-0009", "CVE-2024-0010", "CVE-2024-0011", "CVE-2024-0012" >>

\* the record of a catalog identifier with the score given
SelectRecord(i, score) ==
    MakeRecord(CveNames[i], score, [cvss |-> 98, vendor |-> "acme"], 0,
               Poc(JBool(FALSE), JList(<<>>), JList(<<>>)), 0, 0)

SelectScores == {592, 600}

\* the record lists of a loop over up to MAX_CVES distinct identifiers
SelectInputs ==
    UNION { { [i \in 1..n |-> SelectRecord(i, f[i])] : f \in [1..n -> SelectScores] }
            : n \in 0..MAX_CVES }

\* a run whose loop has finished and that is about to rank its records
InitSelect ==
    /\ pc = "rank" /\ today = 0 /\ stamp = 1
    /\ records \in SelectInputs
    /\ cves = [i \in 1..Len(records) |-> records[i].cve]
    /\ idx = Len(cves) /\ processed = Len(cves)
    /\ kevFailed = FALSE
    /\ exploit_cache = EmptyDict /\ updated_cache = FALSE
    /\ pocCalls = NoCalls /\ nvdCalls = NoCalls /\ cacheWrites = 0 /\ iter = None
    /\ InitFiles /\ cacheFile = Missing
    /\ InitFun

NextSelect ==
    \/ Rank
    \/ WriteScores
    \/ WriteMaster
    \/ WriteHistory

SpecSelect == InitSelect /\ [][NextSelect]_vars

-----------------------------------------------------------------------------
(* C1: every compute_aura_score call with ctx_mult in [0.8, 1.3] returns a   *)
(* score within [0.0, 100.0].                                                *)
C1_ScoreWithin0To100 ==
    (scoreRet.k = "ok" /\ scoreArgs.ctx_mult >= 80 /\ scoreArgs.ctx_mult <= 130)
        => (0 <= scoreRet.value /\ scoreRet.value <= 1000)

-----------------------------------------------------------------------------
(* Shapes of cache entries, stated apart from the loader *)

IsCurrentShape(v) == IsList(v) /\ Len(v.items) = 3

\* a legacy entry (found, urls): two fields, the second a list of strings
IsLegacyShape(v) ==
    /\ IsList(v) /\ Len(v.items) = 2
    /\ IsList(v.items[2])
    /\ \A i \in 1..Len(v.items[2].items) : IsStr(v.items[2].items[i])

\* the characters of u contain /exploits/ followed by a digit
HasExploitId(u) ==
    \E p \in 1..Len(u) :
        /\ p + 10 <= Len(u)
        /\ \A j \in 1..10 : u[p + j - 1] = ExploitsLiteral[j]
        /\ u[p + 10] \in Digits

\* g is the number after the leftmost /exploits/<digit> of u
IsExploitIdOf(g, u) ==
    \E p \in 1..Len(u) :
        /\ p + 10 <= Len(u)
        /\ \A j \in 1..10 : u[p + j - 1] = ExploitsLiteral[j]
        /\ u[p + 10] \in Digits
        /\ \A q \in 1..(p - 1) :
              ~(/\ q + 10 <= Len(u)
                /\ \A j \in 1..10 : u[q + j - 1] = ExploitsLiteral[j]
                /\ u[q + 10] \in Digits)
        /\ Len(g) >= 1
        /\ p + 9 + Len(g) <= Len(u)
        /\ \A j \in 1..Len(g) : g[j] = u[p + 9 + j] /\ g[j] \in Digits
        /\ (p + 10 + Len(g) <= Len(u) => u[p + 10 + Len(g)] \notin Digits)

\* ids (JSON strings) are the numbers of the urls that hold one, in the urls' order
IsExtractionOf(ids, urls) ==
    LET hits == {i \in 1..Len(urls) : HasExploitId(urls[i].s)}
        \* the position among the hits of url i
        pos(i) == Cardinality({h \in hits : h <= i})
    IN  /\ Len(ids) = Cardinality(hits)
        /\ \A i \in hits : IsStr(ids[pos(i)]) /\ IsExploitIdOf(ids[pos(i)].s, urls[i].s)

RawEntries == RawOfFile(rawCache)

-----------------------------------------------------------------------------
(* C8: loading a 3-field entry returns it unchanged; loading a legacy 2-field *)
(* entry (found, urls) returns (found, ids, urls) with ids the numbers taken, *)
(* in order, from the urls containing /exploits/<digits>; a legacy entry and  *)
(* the 3-field entry with the same urls and those ids load to the same value; *)
(* every key of the document is a key of the loaded cache.                    *)
C8_LoadKeepsAndUpgrades ==
    loadRet.k = "ok" =>
        LET raw    == RawEntries
            loaded == loadRet.value
        IN  /\ DOMAIN loaded = DOMAIN raw
            /\ \A key \in DOMAIN raw :
                  /\ IsCurrentShape(raw[key]) => loaded[key] = raw[key]
                  /\ IsLegacyShape(raw[key]) =>
                        /\ IsCurrentShape(loaded[key])
                        /\ loaded[key].items[1] = raw[key].items[1]
                        /\ loaded[key].items[3] = raw[key].items[2]
                        /\ IsList(loaded[key].items[2])
                        /\ IsExtractionOf(loaded[key].items[2].items,
                                          raw[key].items[2].items)
            /\ \A k1, k2 \in DOMAIN raw :
                  (/\ IsLegacyShape(raw[k1]) /\ IsCurrentShape(raw[k2])
                   /\ raw[k2].items[1] = raw[k1].items[1]
                   /\ raw[k2].items[3] = raw[k1].items[2]
                   /\ IsList(raw[k2].items[2])
                   /\ IsExtractionOf(raw[k2].items[2].items, raw[k1].items[2].items))
                  => loaded[k1] = loaded[k2]

\* a document holding the legacy entry (true, [x/exploits/11]) beside the current
\* entry (true, ["11"], [x/exploits/11]) has been loaded, both to the same value
C8_Witness ==
    /\ loadRet.k = "ok"
    /\ \E k1, k2 \in DOMAIN RawEntries :
          /\ RawEntries[k1] = JList(<<JBool(TRUE), JList(<<UrlOne>>)>>)
          /\ RawEntries[k2] = JList(<<JBool(TRUE), JList(<<Id(<<"1", "1">>)>>), JList(<<UrlOne>>)>>)
          /\ loadRet.value[k1] = RawEntries[k2]
          /\ loadRet.value[k2] = RawEntries[k2]

\* an entry the loader does not recognize: not a list, a list of another length,
\* or two fields of which the second is not a list of strings
IsUnrecognized(v) == ~IsCurrentShape(v) /\ ~IsLegacyShape(v)

(* C9: load_exploit_cache never fails, whatever CACHE_FILE holds: an unreadable *)
(* file or a non-object document gives the empty cache, and an entry of         *)
(* unrecognized shape gives the defaulted entry (false, [], []).                *)
C9_LoadNeverFails ==
    loadRet.k # "none" =>
        /\ loadRet.k = "ok"
        /\ (rawCache.k # "whole" \/ rawCache.doc.k # "obj") => loadRet.value = EmptyDict
        /\ \A key \in DOMAIN RawEntries :
              IsUnrecognized(RawEntries[key]) => loadRet.value[key] = DefaultEntry

-----------------------------------------------------------------------------
(* The update run: claims *)

RunEnded == stamp > 0 /\ pc \in {"done", "failed", "aborted", "crashed"}

OutputsAsBefore ==
    /\ scoresFile = pre.scores
    /\ masterFile = pre.master
    /\ historyDir = pre.history

OutputsOfThisRun ==
    /\ scoresFile = Whole(ScoresDoc)
    /\ masterFile = Whole(MasterDoc)
    /\ HistoryFile(historyDir, today) = Whole(HistoryDoc)

(* C2: when the catalog fetch fails, the run writes no output: the public feed, *)
(* the master and the history snapshots stay exactly as they were before the    *)
(* run.                                                                         *)
C2_FailedFetchWritesNothing == kevFailed => OutputsAsBefore

(* C3: a run that has ended has either written all three output documents or  *)
(* left all three as they were.                                               *)
C3_OutputsAllOrNothing == RunEnded => (OutputsOfThisRun \/ OutputsAsBefore)

\* the (identifier, date, score) points a master document holds
MasterPoints(file) ==
    IF file.k = "whole"
    THEN {<<file.doc.records[i].cve, file.doc.date, file.doc.records[i].aura_score>> :
             i \in 1..Len(file.doc.records)}
    ELSE {}

RunPoints == {<<records[i].cve, today, records[i].aura_score>> : i \in 1..Len(records)}

C5_CacheSaveAllOrNothing ==
    stamp > 0 => (cacheFile = pre.cache \/ cacheFile = Whole(JObj(exploit_cache)))

-----------------------------------------------------------------------------
\* the pass of the loop that has just been made (in a step idx' = idx + 1)
LastRecord == records[Len(records)]

(* C6: in each pass of the loop that reaches the PoC lookup: if the cache     *)
(* holds an entry for the identifier, has_exploit_poc is not called, the cache *)
(* is not changed and the values of the stored entry are the ones used; if it *)
(* holds none, has_exploit_poc is called exactly once and, when it returns,   *)
(* its result is stored as [found, ids, urls] and the cache is marked dirty.  *)
C6_LookupHitOrSingleFetch ==
    [][ (pc = "loop" /\ idx' = idx + 1 /\ iter'.lookup # "none") =>
          LET cve == cves[idx + 1]
          IN  IF cve \in DOMAIN exploit_cache
              THEN /\ pocCalls' = pocCalls
                   /\ exploit_cache' = exploit_cache
                   /\ updated_cache' = updated_cache
                   /\ iter'.emitted =>
                         /\ LastRecord'.exploit_poc      = exploit_cache[cve].items[1]
                         /\ LastRecord'.exploit_edb_ids  = exploit_cache[cve].items[2]
                         /\ LastRecord'.exploit_urls     = exploit_cache[cve].items[3]
              ELSE /\ pocCalls' = [pocCalls EXCEPT ![cve] = @ + 1]
                   /\ iter'.poc.k = "ok" =>
                         /\ updated_cache'
                         /\ DOMAIN exploit_cache' = DOMAIN exploit_cache \cup {cve}
                         /\ \A c \in DOMAIN exploit_cache : exploit_cache'[c] = exploit_cache[c]
                         /\ exploit_cache'[cve] =
                               JList(<<iter'.poc.value.found, iter'.poc.value.ids,
                                       iter'.poc.value.urls>>)
                   /\ iter'.poc.k # "ok" =>
                         exploit_cache' = exploit_cache /\ updated_cache' = updated_cache
    ]_vars

\* the catalog named one identifier twice: the first pass missed, called the
\* collector once and stored its result, the second pass was served from the cache
C6_Witness ==
    /\ pc = "loop" /\ idx = 2
    /\ cves[1] = cves[2]
    /\ cves[1] \notin DOMAIN RawOfFile(pre.cache)
    /\ iter.lookup = "hit" /\ iter.emitted
    /\ pocCalls[cves[1]] = 1
    /\ updated_cache
    /\ LastRecord.exploit_edb_ids = exploit_cache[cves[1]].items[2]
    /\ Truthy(LastRecord.exploit_poc)

-----------------------------------------------------------------------------
NvdStale(file) == file.k # "missing" /\ today - file.mtime >= CACHE_TTL_DAYS

\* the cache entry of the identifier was fetched at least CACHE_TTL_DAYS ago
PocStale(cve) ==
    /\ cve \in DOMAIN pre.fetched
    /\ cve \in DOMAIN exploit_cache
    /\ today - pre.fetched[cve] >= CACHE_TTL_DAYS

-----------------------------------------------------------------------------
Ranked == pc \in {"write_scores", "write_master", "write_history", "done", "failed"}

(* C10 as stated: the ranked list is ordered by score descending, records of  *)
(* equal score by identifier ascending.                                       *)
C10_TiesByIdentifier ==
    Ranked =>
        \A i, j \in 1..Len(records) :
            i < j =>
                \/ records[i].aura_score > records[j].aura_score
                \/ /\ records[i].aura_score = records[j].aura_score
                   /\ IdRank(records[i].cve) <= IdRank(records[j].cve)

\* ys holds the records of xs by score descending, records of equal score in
\* the order they have in xs
IsStableRankingOf(ys, xs) ==
    /\ Len(ys) = Len(xs)
    /\ \E p \in Permutations(1..Len(xs)) :
          /\ \A i \in 1..Len(xs) : ys[i] = xs[p[i]]
          /\ \A i, j \in 1..Len(xs) :
                i < j =>
                    \/ ys[i].aura_score > ys[j].aura_score
                    \/ ys[i].aura_score = ys[j].aura_score /\ p[i] < p[j]

(* C10, amended: the ranked list is ordered by score descending, and records  *)
(* of equal score keep the order in which they were accumulated; the ranking  *)
(* is independent of the accumulation order only between records of different *)
(* scores.                                                                    *)
C10_StableByScore ==
    [][ (pc = "rank" /\ pc' = "write_scores") => IsStableRankingOf(records', records) ]_vars

\* two records of equal score have been ranked, the larger identifier first,
\* as the catalog listed them
C10_Witness ==
    /\ pc = "write_scores"
    /\ Len(records) = 2
    /\ records[1].aura_score = records[2].aura_score
    /\ IdRank(records[1].cve) > IdRank(records[2].cve)
    /\ cves = <<records[1].cve, records[2].cve>>

-----------------------------------------------------------------------------
(* C11: a failure of a collector or enrichment step of one identifier removes  *)
(* no identifier from the results and does not stop the loop: during the loop  *)
(* the passes made so far have appended exactly one record each, in catalog    *)
(* order, and after the loop there is one record per catalog identifier.       *)
C11_EveryIdentifierYieldsRecord ==
    /\ pc = "loop" =>
          /\ Len(records) = idx
          /\ \A i \in 1..Len(records) : records[i].cve = cves[i]
    /\ pc \in {"save_tmp", "save_replace", "save_fallback", "rank", "write_scores",
               "write_master", "write_history", "done", "failed"} =>
          Len(records) = Len(cves)

-----------------------------------------------------------------------------
\* the sectors among SectorInputs that name finance, health or government
SensitiveSectorInputs ==
    { JStr(<<"F", "i", "n", "a", "n", "c", "e">>),
      JStr(<<"p", "u", "b", "l", "i", "c", " ", "h", "e", "a", "l", "t", "h">>),
      JStr(<<"G", "O", "V", "E", "R", "N", "M", "E", "N", "T">>) }
LowToleranceInputs  == {JStr(<<"l", "o", "w">>), JStr(<<"L", "o", "w">>)}
HighToleranceInputs == {JStr(<<"h", "i", "g", "h">>)}

ProfileHas(ctx, key, values) == key \in DOMAIN ctx /\ ctx[key] \in values

\* the multiplier the contract gives category c under profile ctx, in hundredths
ContractMultiplier(ctx, c) ==
    100 + (IF c = "cvss" /\ ProfileHas(ctx, "sector", SensitiveSectorInputs) THEN 10 ELSE 0)
        + (IF c = "kev" /\ ProfileHas(ctx, "internet_exposed", {JBool(TRUE)}) THEN 10 ELSE 0)
        + (IF ProfileHas(ctx, "risk_tolerance", LowToleranceInputs) THEN 5 ELSE 0)
        - (IF ProfileHas(ctx, "risk_tolerance", HighToleranceInputs) THEN 5 ELSE 0)

(* C19: compute_context_fit returns a multiplier for each of the six          *)
(* categories, each within [0.8, 1.3] and equal to 1.0, plus 0.1 on severity  *)
(* for a sensitive sector, plus 0.1 on known-exploited when internet-exposed, *)
(* plus 0.05 on all for low and minus 0.05 on all for high risk tolerance;    *)
(* with no profile every multiplier is 1.0.                                   *)
C19_ContextFitMultipliers ==
    ctxRet.k = "ok" =>
        LET mult == ctxRet.value.ctx_data
        IN  /\ DOMAIN mult = {"cvss", "epss", "kev", "exploit", "trend", "ai"}
            /\ \A c \in DOMAIN mult :
                  /\ 80 <= mult[c] /\ mult[c] <= 130
                  /\ mult[c] = ContractMultiplier(ctxArgs.ctx, c)
            /\ ctxArgs.ctx = EmptyDict => \A c \in DOMAIN mult : mult[c] = 100

\* a finance profile, internet-exposed and of low risk tolerance, has been
\* fitted: 1.15 on severity and known-exploited, 1.05 on the other categories
C19_Witness ==
    /\ ctxRet.k = "ok"
    /\ ProfileHas(ctxArgs.ctx, "sector", {JStr(<<"F", "i", "n", "a", "n", "c", "e">>)})
    /\ ProfileHas(ctxArgs.ctx, "internet_exposed", {JBool(TRUE)})
    /\ ProfileHas(ctxArgs.ctx, "risk_tolerance", {JStr(<<"L", "o", "w">>)})
    /\ ctxRet.value.ctx_data["cvss"] = 115
    /\ ctxRet.value.ctx_data["kev"] = 115
    /\ ctxRet.value.ctx_data["epss"] = 105

\* the score of the signals with each category's weight multiplied by that
\* category's multiplier (the values round() can return, in tenths)
PerCategoryScore(a, mult) ==
    RoundTenth(  Min(Max(a.cvss * 10, 0), 1000) * 40 * mult["cvss"]
               + Min(Max(a.epss, 0), 1000) * 20 * mult["epss"]
               + 1000 * 20 * mult["kev"]
               + (IF a.exploit_poc THEN 1000 ELSE 0) * 10 * mult["exploit"]
               + Min(Max(a.trend_score, 0), 1000) * 5 * mult["trend"]
               + Min(Max(a.ai_context, 0), 1000) * 5 * mult["ai"],
               10000)

(* C12: the composite score of a record reflects the context multipliers      *)
(* computed for it: with the per-category map compute_context_fit returns,    *)
(* each category's base weight is multiplied by that category's multiplier.   *)
C12_ScoreAppliesContext ==
    ctxRet.k = "ok" =>
        ctxRet.value.aura_score \in PerCategoryScore(ctxArgs, ctxRet.value.ctx_data)

-----------------------------------------------------------------------------
\* clamp(x, 0, 1) of a value given in thousandths
ContractClamp(x) == IF x < 0 THEN 0 ELSE IF x > 1000 THEN 1000 ELSE x

\* 100 x (0.40 severity/10 + 0.20 probability + 0.20 [known-exploited]
\*        + 0.10 [PoC] + 0.05 attention + 0.05 AI relevance), in thousandths of a point
ContractScore(a) ==
      40 * ContractClamp(a.cvss * 10)
    + 20 * ContractClamp(a.epss)
    + 20 * (IF a.kev THEN 1000 ELSE 0)
    + 10 * (IF a.exploit_poc THEN 1000 ELSE 0)
    + 5 * ContractClamp(a.trend_score)
    + 5 * ContractClamp(a.ai_context)

OnlySeverity(a) ==
    /\ a.epss = 0 /\ ~a.kev /\ ~a.exploit_poc /\ a.trend_score = 0 /\ a.ai_context = 0

(* C15: with ctx_mult 1.0 compute_aura_score returns the weighted sum of the  *)
(* clamped signals (weights 0.40, 0.20, 0.20, 0.10, 0.05, 0.05) times 100,    *)
(* rounded to one decimal; severity -1 contributes 0 and severity 10 the full *)
(* 0.40; severity 9.8 with known-exploited and nothing else gives 59.2.       *)
C15_NeutralScoreFormula ==
    (scoreRet.k = "ok" /\ scoreArgs.ctx_mult = 100) =>
        LET ret == scoreRet.value
        IN  /\ 100 * ret - ContractScore(scoreArgs) <= 50
            /\ ContractScore(scoreArgs) - 100 * ret <= 50
            /\ (OnlySeverity(scoreArgs) /\ scoreArgs.cvss = -10) => ret = 0
            /\ (OnlySeverity(scoreArgs) /\ scoreArgs.cvss = 100) => ret = 400
            /\ (scoreArgs.cvss = 98 /\ scoreArgs.kev /\ scoreArgs.epss = 0
                  /\ ~scoreArgs.exploit_poc /\ scoreArgs.trend_score = 0
                  /\ scoreArgs.ai_context = 0) => ret = 592

\* severity 9.8, known-exploited, every other signal zero, neutral context: 59.2
C15_Witness ==
    /\ scoreRet = Ok(592)
    /\ scoreArgs = [cvss |-> 98, epss |-> 0, kev |-> TRUE, ctx_mult |-> 100,
                    trend_score |-> 0, exploit_poc |-> FALSE, ai_context |-> 0]

-----------------------------------------------------------------------------
\* the name is <YYYY-MM-DD>.json for the date of day d
IsSnapshotName(fname, d) == fname = <<DateText(d), Ext>>

\* the name is <YYYY-MM-DD>.json for some date
IsDatedJson(fname) == Len(fname) = 2 /\ fname[1].p = "date" /\ fname[2] = Ext

(* C13: prune(days) deletes every file named <YYYY-MM-DD>.json whose date is  *)
(* more than `days` days before today, keeps every such file whose date is    *)
(* within the window, and leaves untouched every file whose name does not end *)
(* in .json or does not parse as a date.                                      *)
C13_PruneByDateOnly ==
    pruneCall.k = "ok" =>
        \A fname \in pruneCall.before.names :
            /\ IsDatedJson(fname) =>
                  (fname \in dataHistory.names <=> today - fname[1].day <= pruneCall.days)
            /\ ~IsDatedJson(fname) => fname \in dataHistory.names

(* C18: the snapshots a run writes are the files prune acts on: after a call  *)
(* of prune(days), no snapshot written by the update run is older than `days` *)
(* days.                                                                      *)
C18_SnapshotsArePruned ==
    pruneCall.k # "none" =>
        \A d \in DOMAIN historyDir : today - d <= pruneCall.days

-----------------------------------------------------------------------------
\* the number of records of rs for identifier c
PointsOf(rs, c) == Cardinality({i \in 1..Len(rs) : rs[i].cve = c})

\* an earlier run committed records on this run's date
CommittedToday == stamp >= 2 /\ pre.master.k = "whole" /\ pre.master.doc.date = today

-----------------------------------------------------------------------------
\* the loop of this run is over
LoopOver ==
    pc \in {"save_tmp", "save_replace", "save_fallback", "rank", "write_scores",
            "write_master", "write_history", "done", "failed"}

\* an identifier has an entry in exploit_cache that the loaded cache file lacked
EntryAdded == \E c \in DOMAIN exploit_cache : c \notin DOMAIN RawOfFile(pre.cache)

(* C20: in one run CACHE_FILE is written at most once, only after the loop    *)
(* over all identifiers has finished, and only if an entry was added during   *)
(* the run; a run in which no identifier missed the cache does not write it.  *)
C20_CacheWrittenOnceAfterLoop ==
    stamp > 0 =>
        /\ cacheWrites <= 1
        /\ pc = "loop" => (cacheWrites = 0 /\ cacheFile = pre.cache)
        /\ (cacheWrites > 0 \/ cacheFile # pre.cache) => (EntryAdded /\ idx = Len(cves))
        /\ (\A c \in CveIds : pocCalls[c] = 0) => (cacheWrites = 0 /\ cacheFile = pre.cache)

\* a run whose two identifiers both missed the cache has ended: the file was
\* written once, after the loop, with both entries
C20_Witness ==
    /\ pc = "done"
    /\ Len(cves) = 2 /\ cves[1] # cves[2]
    /\ pocCalls[cves[1]] = 1 /\ pocCalls[cves[2]] = 1
    /\ cacheWrites = 1
    /\ DOMAIN exploit_cache = {cves[1], cves[2]}
    /\ cacheFile = Whole(JObj(exploit_cache))
    /\ pre.cache = Missing

-----------------------------------------------------------------------------
(* C17: get_cvss_vendor_product never raises: whatever the cache file holds,  *)
(* however the request ends and whatever document is returned, it returns a   *)
(* (severity, vendor) pair, and when the request failed that pair is          *)
(* (0.0, "Unknown").                                                          *)
C17_NvdLookupNeverRaises ==
    nvdRet.k = "called" =>
        /\ nvdRet.call.ret.k = "ok"
        /\ (nvdRet.call.fetched /\ nvdArgs.http.k # "ok") =>
              nvdRet.call.ret.value = [cvss |-> 0, vendor |-> "Unknown"]

-----------------------------------------------------------------------------
(* C16: after ranking, the public feed holds the first min(10, n) records of  *)
(* the ranked list in ranked order, the master and history documents hold the *)
(* whole ranked list, and neither selection nor the writes change a record.   *)
C16_FeedIsTopOfRanking ==
    [][ /\ pc \in {"write_scores", "write_master", "write_history"} => records' = records
        /\ pc' = "done" =>
              LET feed == scoresFile'.doc.cves
                  n    == Len(records)
              IN  /\ scoresFile'.k = "whole"
                  /\ Len(feed) = (IF n < 10 THEN n ELSE 10)
                  /\ \A i \in 1..Len(feed) : feed[i] = records[i]
                  /\ masterFile'.k = "whole" /\ masterFile'.doc.records = records
                  /\ historyDir'[today].k = "whole"
                  /\ historyDir'[today].doc.records = records
                  /\ \A i \in 1..(n - 1) : records[i].aura_score >= records[i + 1].aura_score
    ]_vars

\* twelve records have been ranked and written: ten in the feed, twelve in the
\* master and the snapshot, the eleventh and twelfth unchanged in both
C16_Witness ==
    /\ pc = "done"
    /\ Len(records) = 12
    /\ Len(scoresFile.doc.cves) = 10
    /\ scoresFile.doc.cves[10] = records[10]
    /\ Len(masterFile.doc.records) = 12
    /\ masterFile.doc.records[12] = records[12]
    /\ historyDir[today].doc.records[11] = records[11]
    /\ records[1].aura_score > records[12].aura_score

-----------------------------------------------------------------------------
\* cache `new` holds every entry of cache `old`, unchanged
Extends(new, old) ==
    /\ DOMAIN old \subseteq DOMAIN new
    /\ \A c \in DOMAIN old : new[c] = old[c]

(* C21: during a run the PoC cache only grows: no step after the load removes *)
(* or alters an entry of exploit_cache; a pass that stored its lookup result  *)
(* and then raised appends no record but keeps the new entry and the dirty    *)
(* flag; a run that added an entry and goes on to rank has CACHE_FILE holding *)
(* the whole cache, and the ranking and the output writes, whatever their     *)
(* outcome, leave the cache and CACHE_FILE as they are.                       *)
C21_CacheOnlyGrows ==
    [][ /\ stamp' = stamp => Extends(exploit_cache', exploit_cache)
        /\ (/\ pc = "loop" /\ idx' = idx + 1
            /\ iter'.lookup = "miss" /\ iter'.poc.k = "ok" /\ ~iter'.emitted) =>
              /\ records' = records
              /\ cves[idx + 1] \notin DOMAIN exploit_cache
              /\ cves[idx + 1] \in DOMAIN exploit_cache'
              /\ updated_cache'
        /\ (pc' = "rank" /\ updated_cache) => cacheFile' = Whole(JObj(exploit_cache))
        /\ pc \in {"rank", "write_scores", "write_master", "write_history"} =>
              (cacheFile' = cacheFile /\ exploit_cache' = exploit_cache)
    ]_vars

\* the one identifier of the catalog missed the cache, its lookup result was
\* stored, the pass raised afterwards and an output write failed: there is no
\* record, and the entry is in CACHE_FILE
C21_Witness ==
    /\ pc = "failed"
    /\ Len(cves) = 1 /\ records = <<>>
    /\ iter.lookup = "miss" /\ iter.poc.k = "ok" /\ ~iter.emitted
    /\ cves[1] \notin DOMAIN RawOfFile(pre.cache)
    /\ cacheFile = Whole(JObj(exploit_cache))
    /\ cves[1] \in DOMAIN exploit_cache

=============================================================================
